---- MODULE Spec2Model ----
(***************************************************************************)
(* Model of raw_data_conversion/timesync/samplesource.c: the WAV sample    *)
(* source (SampleSourceOpen, SampleSourceRead, SampleSourceClose) and the  *)
(* comment-header parser inlined in SampleSourceOpen.                       *)
(*                                                                         *)
(* Text is a sequence of one-character strings.  A scale factor is an      *)
(* exact fraction <<numerator, denominator>> in lowest terms (1.0f is      *)
(* <<1, 1>>, 16384 / 32768.0 is <<1, 2>>): every value used here is an     *)
(* integer below 2^24 over a power of two, which float holds exactly.      *)
(* The heap is a sequence of blocks (FILE handles, strdup and malloc       *)
(* blocks); a block's address is its index, 0 is NULL.  Each block records *)
(* the open call that acquired it and how often it was released.           *)
(*                                                                         *)
(* WavRead (wav.c) and TimeParse (timestamp.c) are called, not defined, by *)
(* this file: what WavRead reports is an input of an open call, and a      *)
(* timestamp text is abstracted to a signed decimal count of seconds.      *)
(* strdup is taken to succeed.  The sample source starts zero-initialised; *)
(* infoArtist, infoName and infoDate, which are cleared and filled but     *)
(* never read, are left out.                                                *)
(***************************************************************************)
EXTENDS Integers, Sequences, FiniteSets, TLC

VARIABLES ss, heap, opens, last

vars == <<ss, heap, opens, last>>

----------------------------------------------------------------------------
(* Bounds of the model *)

MaxOpens == 2

MaxSamples == 2

MaxLines == 2

----------------------------------------------------------------------------
(* Program constants *)

MAX_FIELDS == 32

SAMPLE_SOURCE_CHANNELS_MAX == 16

FULL_SCALE == 32768

NULL == 0

NL == "\n"

Channels == 0 .. (SAMPLE_SOURCE_CHANNELS_MAX - 1)

Abs(n) == IF n < 0 THEN 0 - n ELSE n

RECURSIVE Gcd(_, _)
Gcd(a, b) == IF b = 0 THEN a ELSE Gcd(b, a % b)

\* The fraction n / d (d > 0) in lowest terms
Frac(n, d) == LET g == Gcd(Abs(n), d) IN <<n \div g, d \div g>>

\* f > 0 for a fraction f
Positive(f) == f[1] > 0

\* sampleSource->scale[i] = 1.0f
DefaultScale == [i \in Channels |-> Frac(1, 1)]

----------------------------------------------------------------------------
(* C string helpers *)

Min(a, b) == IF a < b THEN a ELSE b

\* strncmp(line, prefix, Len(prefix)) == 0
HasPrefix(line, prefix) ==
    /\ Len(line) >= Len(prefix)
    /\ SubSeq(line, 1, Len(prefix)) = prefix

\* line[k] with C's 0-based index; the terminating NUL past the end
CharAt(line, k) == IF k < Len(line) THEN line[k + 1] ELSE "NUL"

\* line + k
StrFrom(line, k) == SubSeq(line, k + 1, Len(line))

\* c - '0' for the characters '0' .. '9'
Digits ==
    [c \in {"0", "1", "2", "3", "4", "5", "6", "7", "8", "9"} |->
        CASE c = "0" -> 0 [] c = "1" -> 1 [] c = "2" -> 2 [] c = "3" -> 3
          [] c = "4" -> 4 [] c = "5" -> 5 [] c = "6" -> 6 [] c = "7" -> 7
          [] c = "8" -> 8 [] c = "9" -> 9]

IsDigit(c) == c \in DOMAIN Digits

DigitVal(c) == Digits[c]

\* strtok(text, "\n") called until NULL: the maximal non-empty runs of
\* characters other than the delimiter, in order (empty lines yield no token)
RECURSIVE StrTokFrom(_, _, _)
StrTokFrom(text, i, cur) ==
    IF i > Len(text)
    THEN IF cur = <<>> THEN <<>> ELSE <<cur>>
    ELSE IF text[i] = NL
         THEN (IF cur = <<>> THEN <<>> ELSE <<cur>>) \o StrTokFrom(text, i + 1, <<>>)
         ELSE StrTokFrom(text, i + 1, Append(cur, text[i]))

StrTok(text) == StrTokFrom(text, 1, <<>>)

\* The digits of a decimal number starting at position i, accumulated
RECURSIVE DigitsFrom(_, _, _)
DigitsFrom(s, i, acc) ==
    IF i <= Len(s) /\ IsDigit(s[i])
    THEN DigitsFrom(s, i + 1, 10 * acc + DigitVal(s[i]))
    ELSE acc

RECURSIVE SkipSpace(_, _)
SkipSpace(s, i) == IF i <= Len(s) /\ s[i] = " " THEN SkipSpace(s, i + 1) ELSE i

\* atof on texts of blanks, a sign, digits and other characters: leading
\* blanks are skipped, an optional sign is read, then the longest run of
\* digits; no digits gives 0
Atof(s) ==
    LET i == SkipSpace(s, 1)
        neg == i <= Len(s) /\ s[i] = "-"
        j == IF i <= Len(s) /\ s[i] \in {"-", "+"} THEN i + 1 ELSE i
        v == DigitsFrom(s, j, 0)
    IN  IF neg THEN 0 - v ELSE v

\* TimeParse of timestamp.c: the timestamp text is abstracted to a signed
\* count of seconds; a text that is no timestamp parses to 0
TimeParse(s) ==
    LET i == SkipSpace(s, 1)
        neg == i <= Len(s) /\ s[i] = "-"
        j == IF neg THEN i + 1 ELSE i
        v == DigitsFrom(s, j, 0)
    IN  IF neg THEN 0 - v ELSE v

----------------------------------------------------------------------------
(* Header metadata parser (inlined in SampleSourceOpen) *)

\* CommentLines without the numCommentLines < MAX_FIELDS test
CommentLinesNoLimit(text) == StrTok(text)

\* for (line = strtok(...); ...) { if (numCommentLines < MAX_FIELDS) {...} }
CommentLines(text) ==
    LET toks == StrTok(text)
    IN  SubSeq(toks, 1, Min(Len(toks), MAX_FIELDS))

IsTimeLine(line) == HasPrefix(line, <<"T", "i", "m", "e", ":">>)

IsScaleLine(line) ==
    /\ HasPrefix(line, <<"S", "c", "a", "l", "e", "-">>)
    /\ IsDigit(CharAt(line, 6)) /\ CharAt(line, 6) # "0"
    /\ CharAt(line, 7) = ":"

\* int chan = commentLines[i][6] - '1'
ScaleChan(line) == DigitVal(CharAt(line, 6)) - 1

\* (float)(val / 32768.0)
ScaleOfVal(val) == Frac(val, FULL_SCALE)

\* One iteration of the parse loop on line, from parser state p
ParseLine(p, line) ==
    IF IsTimeLine(line)
    THEN LET t == TimeParse(StrFrom(line, 5))
         IN  [p EXCEPT !.startTime = t,
                       !.parsedTime = IF t > 0 THEN TRUE ELSE @]
    ELSE IF IsScaleLine(line)
    THEN LET chan == ScaleChan(line)
             sc == ScaleOfVal(Atof(StrFrom(line, 8)))
         IN  [p EXCEPT !.scale[chan] = sc,
                       !.parsedScale[chan] = IF Positive(sc) THEN TRUE ELSE @]
    ELSE p

RECURSIVE ParseFrom(_, _, _)
ParseFrom(p, lines, i) ==
    IF i > Len(lines) THEN p ELSE ParseFrom(ParseLine(p, lines[i]), lines, i + 1)

\* The parse loop over the comment lines, scale being sampleSource->scale
ParseHeaders(lines, scale) ==
    ParseFrom([startTime |-> 0, parsedTime |-> FALSE, scale |-> scale,
               parsedScale |-> [c \in Channels |-> FALSE]], lines, 1)

\* ScaleWarnings looping over every channel instead of the first three
ScaleWarningsAll(parsedScale) == {i \in Channels : ~parsedScale[i]}

\* for (i = 0; i < 3; i++) if (!parsedScale[i]) warning
ScaleWarnings(parsedScale) == {i \in 0 .. 2 : ~parsedScale[i]}

\* The warnings written to stderr after the parse loop
Warnings(p) == [time |-> ~p.parsedTime, scale |-> ScaleWarnings(p.parsedScale)]

NoWarnings == [time |-> FALSE, scale |-> {}]

----------------------------------------------------------------------------
(* Heap: fopen/fclose, strdup/malloc/free *)

Alloc(h, kind, call) == Append(h, [kind |-> kind, call |-> call, frees |-> 0])

Free(h, b) == [h EXCEPT ![b].frees = @ + 1]

Fresh(h) == Len(h) + 1

----------------------------------------------------------------------------
(* What a call of SampleSourceOpen meets: whether the file can be opened,  *)
(* what WavRead reports for it, and whether malloc and fread succeed.      *)

SizeofInt16 == 2

LTime5 == <<"T", "i", "m", "e", ":", "5">>

LTimeBad == <<"T", "i", "m", "e", ":", "x">>

LTimeNeg == <<"T", "i", "m", "e", ":", "-", "3">>

LScale1 == <<"S", "c", "a", "l", "e", "-", "1", ":", " ", "1", "6", "3", "8", "4">>

LScale1Zero == <<"S", "c", "a", "l", "e", "-", "1", ":", "0">>

LScale1Neg == <<"S", "c", "a", "l", "e", "-", "1", ":", "-", "4">>

LScale2 == <<"S", "c", "a", "l", "e", "-", "2", ":", " ", "8", "1", "9", "2">>

LScale2Bad == <<"S", "c", "a", "l", "e", "-", "2", ":", "x">>

LScale5 == <<"S", "c", "a", "l", "e", "-", "5", ":", " ", "1", "0", "0">>

LJunk == <<"x">>

\* The lines joined by newlines
RECURSIVE JoinLines(_)
JoinLines(lines) ==
    IF lines = <<>> THEN <<>>
    ELSE IF Len(lines) = 1 THEN lines[1]
    ELSE lines[1] \o <<NL>> \o JoinLines(Tail(lines))

\* n copies of a line, each followed by a newline
RECURSIVE Repeat(_, _)
Repeat(line, n) == IF n = 0 THEN <<>> ELSE line \o <<NL>> \o Repeat(line, n - 1)

\* The file on disk: length is what ftell reports at its end
FileLength(wav) == wav.offset + wav.bytesPerChannel * wav.chans * wav.numSamples

GoodWav(comment) ==
    [ok |-> TRUE, bytesPerChannel |-> 2, chans |-> 2, freq |-> 1,
     numSamples |-> 1, offset |-> 44, infoComment |-> comment]

NoFile == [exists |-> FALSE, wav |-> GoodWav(<<>>), env |-> "ok"]

Envs == {"ok", "nomem", "short"}

\* Comment texts of the files opened in the lifecycle specification
LifecycleComments == {<<>>, JoinLines(<<LTime5, LScale1, LScale2>>)}

\* Files of the lifecycle specification: none, an unreadable container, a
\* rejected format, and well-formed files of every size the bounds allow
RejectedWavs ==
    {[GoodWav(<<>>) EXCEPT !.ok = FALSE],
     [GoodWav(<<>>) EXCEPT !.bytesPerChannel = 1]}

LifecycleWavs ==
    [ok : {TRUE}, bytesPerChannel : {2}, chans : {1, 2}, freq : {1},
     numSamples : 0 .. MaxSamples, offset : {44},
     infoComment : LifecycleComments]

LifecycleFiles ==
    {NoFile}
    \cup [exists : {TRUE}, wav : RejectedWavs, env : {"ok"}]
    \cup [exists : {TRUE}, wav : LifecycleWavs, env : Envs]

\* The minCount arguments of the reads
MinCounts == {0, 1}

\* Files of the format check: every combination of what WavRead reports
FormatWavs ==
    [ok : BOOLEAN, bytesPerChannel : {1, 2, 3},
     chans : {0, 1, 2, SAMPLE_SOURCE_CHANNELS_MAX, SAMPLE_SOURCE_CHANNELS_MAX + 1},
     freq : {0, 1, 2}, numSamples : 0 .. MaxSamples, offset : {44},
     infoComment : LifecycleComments]

FormatFiles == [exists : {TRUE}, wav : FormatWavs, env : Envs]

\* Comment texts of the header parse: up to MaxLines lines of the pool
\* (an empty line among them), after nothing, after an empty line, or after
\* enough filler lines to reach the MAX_FIELDS limit
LinePool ==
    {LTime5, LTimeBad, LTimeNeg, LScale1, LScale1Zero, LScale1Neg, LScale2,
     LScale2Bad, LScale5, LJunk, <<>>}

Bodies == UNION {[1 .. n -> LinePool] : n \in 0 .. MaxLines}

Heads ==
    {<<>>, Repeat(LJunk, MAX_FIELDS - 1), Repeat(LJunk, MAX_FIELDS),
     <<NL>> \o Repeat(LJunk, MAX_FIELDS - 1)}

ParseComments == {h \o JoinLines(b) : h \in Heads, b \in Bodies}

ParseFiles == {[exists |-> TRUE, wav |-> GoodWav(c), env |-> e] : c \in ParseComments, e \in Envs}

----------------------------------------------------------------------------
(* SampleSourceOpen *)

\* FormatOk accepting one channel too many
FormatOkOffByOne(wav) ==
    /\ wav.bytesPerChannel = 2
    /\ wav.chans >= 1 /\ wav.chans <= SAMPLE_SOURCE_CHANNELS_MAX + 1
    /\ wav.freq >= 1

FormatOk(wav) ==
    /\ wav.bytesPerChannel = 2
    /\ wav.chans >= 1 /\ wav.chans <= SAMPLE_SOURCE_CHANNELS_MAX
    /\ wav.freq >= 1

\* SampleSourceOpen after the parse loop (parser state p): the warnings,
\* the header copy and the load of the whole file into a fresh buffer
OpenLoad(s1, h2, call, file, fp, infoComment, p) ==
    LET wav == file.wav
        w == Warnings(p)
        s2 == [s1 EXCEPT !.scale = p.scale,
                         !.dataStartOffset = wav.offset,
                         !.numChannels = wav.chans,
                         !.numSamples = wav.numSamples,
                         !.sampleRate = wav.freq,
                         !.startTime = p.startTime]
        length == FileLength(wav)
        buffer == Fresh(h2)
        h3 == Alloc(h2, "malloc", call)
    IN  IF file.env = "nomem"
        THEN [ss |-> s2, heap |-> Free(h2, fp), ret |-> "EXIT_SOFTWARE",
              warnings |-> w]
        ELSE IF file.env = "short"
        THEN [ss |-> s2, heap |-> Free(Free(h3, buffer), fp),
              ret |-> "EXIT_IOERR", warnings |-> w]
        ELSE [ss |-> [s2 EXCEPT !.buffer = buffer, !.bufferLength = length],
              heap |-> Free(Free(h3, fp), infoComment),
              ret |-> "EXIT_OK", warnings |-> w]

\* The result of SampleSourceOpen on sample source s with heap h: the new
\* sample source and heap, the return code and the warnings written
SampleSourceOpen(s, h, call, file) ==
    IF ~file.exists
    THEN [ss |-> s, heap |-> h, ret |-> "EXIT_NOINPUT", warnings |-> NoWarnings]
    ELSE
    LET wav == file.wav
        fp == Fresh(h)
        h1 == Alloc(h, "FILE", call)
        \* default scale, cleared info texts, then WavRead fills them
        s1 == [s EXCEPT !.scale = DefaultScale, !.infoComment = wav.infoComment]
    IN  IF ~wav.ok \/ ~FormatOk(wav)
        THEN [ss |-> s1, heap |-> Free(h1, fp), ret |-> "EXIT_DATAERR",
              warnings |-> NoWarnings]
        ELSE OpenLoad(s1, Alloc(h1, "strdup", call), call, file, fp, Fresh(h1),
                      ParseHeaders(CommentLines(s1.infoComment), s1.scale))

----------------------------------------------------------------------------
(* SampleSourceRead *)

\* ViewOffset forgetting the start of the data chunk
ViewOffsetNoStart(s, index) == SizeofInt16 * index * s.numChannels

ViewOffset(s, index) == s.dataStartOffset + SizeofInt16 * index * s.numChannels

\* The view returned: the buffer it points into, its byte offset, and the
\* span written when the caller passed a non-NULL span
SampleSourceRead(s, index, minCount, spanReq) ==
    [base |-> s.buffer,
     offset |-> ViewOffset(s, index),
     span |-> IF spanReq THEN <<SizeofInt16 * s.numChannels>> ELSE <<>>]

----------------------------------------------------------------------------
(* SampleSourceClose *)

\* SampleSourceClose leaving the freed pointer in place
SampleSourceCloseKeepsPointer(s, h) ==
    [ss |-> [s EXCEPT !.bufferLength = 0],
     heap |-> IF s.buffer # NULL THEN Free(h, s.buffer) ELSE h]

SampleSourceClose(s, h) ==
    [ss |-> [s EXCEPT !.buffer = NULL, !.bufferLength = 0],
     heap |-> IF s.buffer # NULL THEN Free(h, s.buffer) ELSE h]

----------------------------------------------------------------------------
(* The state machine *)

NoView == [base |-> NULL, offset |-> 0, span |-> <<>>]

NoCall == [op |-> "none", ret |-> "EXIT_OK", warnings |-> NoWarnings,
           exists |-> FALSE, wav |-> NoFile.wav,
           index |-> 0, minCount |-> 0, spanReq |-> FALSE, view |-> NoView]

\* A zero-initialised sample_source_t and an empty heap
Init ==
    /\ ss = [scale |-> [c \in Channels |-> Frac(0, 1)], infoComment |-> <<>>,
             dataStartOffset |-> 0, numChannels |-> 0, numSamples |-> 0,
             sampleRate |-> 0, startTime |-> 0, buffer |-> NULL,
             bufferLength |-> 0]
    /\ heap = <<>>
    /\ opens = 0
    /\ last = NoCall

Open(file) ==
    /\ \E r \in {SampleSourceOpen(ss, heap, opens + 1, file)} :
           /\ ss' = r.ss
           /\ heap' = r.heap
           /\ last' = [NoCall EXCEPT !.op = "open", !.ret = r.ret,
                                     !.warnings = r.warnings,
                                     !.exists = file.exists, !.wav = file.wav]
    /\ opens' = opens + 1

\* Reading is for an open sample source (the caller's contract)
Read(index, minCount, spanReq) ==
    /\ ss.buffer # NULL
    /\ last' = [NoCall EXCEPT !.op = "read", !.index = index,
                              !.minCount = minCount, !.spanReq = spanReq,
                              !.view = SampleSourceRead(ss, index, minCount, spanReq)]
    /\ UNCHANGED <<ss, heap, opens>>

Close ==
    /\ \E r \in {SampleSourceClose(ss, heap)} :
           ss' = r.ss /\ heap' = r.heap
    /\ last' = [NoCall EXCEPT !.op = "close"]
    /\ UNCHANGED opens

OpenAny == opens < MaxOpens /\ \E file \in LifecycleFiles : Open(file)

ReadAny ==
    \E index \in 0 .. MaxSamples, minCount \in MinCounts, spanReq \in BOOLEAN :
        Read(index, minCount, spanReq)

Next == OpenAny \/ ReadAny \/ Close

Spec == Init /\ [][Next]_vars

\* One open of a fresh sample source, on every format and every comment
OpenFormat == opens = 0 /\ \E file \in FormatFiles \cup {NoFile} : Open(file)

OpenParse == opens = 0 /\ \E file \in ParseFiles : Open(file)

NextOpen == OpenFormat \/ OpenParse \/ Close

SpecOpen == Init /\ [][NextOpen]_vars

----------------------------------------------------------------------------
(* Definitions used to state the properties *)

\* The text split at every newline, empty lines kept
RECURSIVE SplitFrom(_, _, _)
SplitFrom(text, i, cur) ==
    IF i > Len(text) THEN <<cur>>
    ELSE IF text[i] = NL THEN <<cur>> \o SplitFrom(text, i + 1, <<>>)
    ELSE SplitFrom(text, i + 1, Append(cur, text[i]))

SplitLines(text) == SplitFrom(text, 1, <<>>)

NonEmpty(line) == line # <<>>

FirstN(lines, n) == SubSeq(lines, 1, Min(n, Len(lines)))

\* The open call got as far as the header parse
Parsed == last.op = "open" /\ last.ret \in {"EXIT_OK", "EXIT_SOFTWARE", "EXIT_IOERR"}

Opened == last.op = "open" /\ last.ret = "EXIT_OK"

\* The lines of the comment the parse loop looks at
Considered == CommentLines(ss.infoComment)

\* The positive scales given by the Scale-(c+1) lines among lines
ValidScales(lines, c) ==
    {f \in {ScaleOfVal(Atof(StrFrom(lines[i], 8))) :
              i \in {j \in 1 .. Len(lines) :
                       IsScaleLine(lines[j]) /\ ScaleChan(lines[j]) = c}} :
        Positive(f)}

\* The strictly positive times given by the Time lines among lines
ValidTimes(lines) ==
    {t \in {TimeParse(StrFrom(lines[i], 5)) :
              i \in {j \in 1 .. Len(lines) : IsTimeLine(lines[j])}} :
        t > 0}

\* What the header parse gives for a comment text
HeaderOutcome(text) ==
    LET p == ParseHeaders(CommentLines(text), DefaultScale)
    IN  [startTime |-> p.startTime, scale |-> p.scale, warnings |-> Warnings(p)]

StateOutcome == [startTime |-> ss.startTime, scale |-> ss.scale, warnings |-> last.warnings]

BadFormat(wav) ==
    \/ wav.bytesPerChannel # 2
    \/ wav.chans < 1
    \/ wav.chans > SAMPLE_SOURCE_CHANNELS_MAX
    \/ wav.freq < 1

\* The blocks the latest open call acquired
AcquiredByLastOpen == {b \in DOMAIN heap : heap[b].call = opens}

NeverFreedTwice == \A b \in DOMAIN heap : heap[b].frees <= 1

----------------------------------------------------------------------------
(* C1: an open whose container reader reports bytes-per-channel other than *)
(* 2, a channel count outside [1, SAMPLE_SOURCE_CHANNELS_MAX] or a sample   *)
(* rate below 1 returns EXIT_DATAERR and allocates no sample buffer,        *)
(* whatever the other format fields and the comment are.                    *)
C1_FormatRejected ==
    (last.op = "open" /\ last.exists /\ BadFormat(last.wav))
        => /\ last.ret = "EXIT_DATAERR"
           /\ \A b \in AcquiredByLastOpen : heap[b].kind # "malloc"
           /\ ss.buffer = NULL

C1_Witness ==
    /\ last.op = "open" /\ last.exists /\ last.wav.ok
    /\ last.wav.bytesPerChannel = 2 /\ last.wav.freq >= 1
    /\ last.wav.chans = SAMPLE_SOURCE_CHANNELS_MAX + 1
    /\ last.wav.infoComment # <<>>
    /\ last.ret = "EXIT_DATAERR"

(* C2: on every path where the open call returns an error, every resource  *)
(* the call acquired (file handle, sample buffer, duplicated comment) has   *)
(* been released before it returns.                                         *)
C2_NoLeakOnError ==
    (last.op = "open" /\ last.ret # "EXIT_OK")
        => \A b \in AcquiredByLastOpen : heap[b].frees = 1

(* C3: after a successful open, scale[c] is the positive scale of an       *)
(* accepted Scale-(c+1) line, and 1.0 in every other case (no such line,   *)
(* or only lines whose value is zero, negative or unparsable).             *)
C3_ScaleOrDefault ==
    Opened =>
        \A lines \in {Considered} : \A c \in Channels :
            IF ValidScales(lines, c) # {}
            THEN ss.scale[c] \in ValidScales(lines, c)
            ELSE ss.scale[c] = <<1, 1>>

(* C4: an open of an otherwise valid file never fails because of the       *)
(* comment; without a Time line of strictly positive value it warns and    *)
(* leaves startTime at 0, and with one startTime is a strictly positive    *)
(* parsed value.                                                            *)
C4_StartTime ==
    /\ (last.op = "open" /\ last.exists /\ last.wav.ok /\ ~BadFormat(last.wav))
           => Parsed
    /\ Opened =>
           \A valid \in {ValidTimes(Considered)} :
               IF valid = {}
               THEN ss.startTime = 0 /\ last.warnings.time
               ELSE ss.startTime \in valid /\ ~last.warnings.time

(* C5: a read of an open sample source at an in-range index returns a view *)
(* at byte offset dataStartOffset + 2*index*numChannels of the buffer and  *)
(* reports span 2*numChannels, whatever minCount is, and a read changes no *)
(* field of the sample source.                                              *)
C5_ReadView ==
    /\ [](last.op = "read" /\ last.index < ss.numSamples
            => /\ last.view.base = ss.buffer
               /\ last.view.offset = ss.dataStartOffset + 2 * last.index * ss.numChannels
               /\ last.spanReq => last.view.span = <<2 * ss.numChannels>>)
    /\ [][last'.op = "read" => ss' = ss /\ heap' = heap]_vars

C5_Witness ==
    /\ last.op = "read" /\ last.index = 1 /\ last.index < ss.numSamples
    /\ last.minCount = 1 /\ ss.numChannels = 2
    /\ last.view.offset = 48 /\ last.view.span = <<4>>

(* C6: a read whose index + minCount frames do not lie within numSamples   *)
(* fails (returns no view) instead of returning a view, so every byte of   *)
(* every view returned lies inside the loaded buffer.                       *)
C6_ReadInRange ==
    last.op = "read" =>
        \/ last.view.base = NULL
        \/ /\ last.index + last.minCount <= ss.numSamples
           /\ last.view.offset + 2 * ss.numChannels * last.minCount <= ss.bufferLength

(* C7: after any close the buffer is released (pointer NULL, the block     *)
(* freed) and bufferLength is 0; a further close changes nothing, and no   *)
(* block is ever freed twice.                                               *)
C7_CloseIdempotent ==
    /\ [](last.op = "close" => ss.buffer = NULL /\ ss.bufferLength = 0)
    /\ []NeverFreedTwice
    /\ [][(last'.op = "close" /\ ss.buffer # NULL) => heap'[ss.buffer].frees = 1]_vars
    /\ [][(last.op = "close" /\ last'.op = "close") => (ss' = ss /\ heap' = heap)]_vars

C7_Witness ==
    /\ last.op = "close" /\ ss.buffer = NULL /\ ss.bufferLength = 0
    /\ \E b \in DOMAIN heap : heap[b].kind = "malloc" /\ heap[b].call = opens /\ heap[b].frees = 1

(* C8: after the comment is scanned, the missing-Scale warning is written  *)
(* for channel index i exactly when i is 0, 1 or 2 and no line gave a      *)
(* positive scale for it, never for an index >= 3; the comment             *)
(* "Scale-5: 100" alone sets scale[4] to 100/32768 and still gives the     *)
(* three warnings.                                                          *)
C8_ScaleWarnings ==
    Parsed =>
        /\ \A lines \in {Considered} : \A i \in Channels :
               i \in last.warnings.scale <=> (i <= 2 /\ ValidScales(lines, i) = {})
        /\ ss.infoComment = LScale5
               => ss.scale[4] = <<25, 8192>> /\ last.warnings.scale = {0, 1, 2}

C8_Witness ==
    /\ Opened /\ ss.infoComment = LScale5
    /\ ss.scale[4] = <<25, 8192>> /\ last.warnings.scale = {0, 1, 2}

(* C9 as stated: only the first MAX_FIELDS newline-separated lines of the  *)
(* comment count; the lines after them change neither startTime, nor any   *)
(* scale, nor the warnings.                                                 *)
C9_FirstLinesOnly ==
    Parsed =>
        StateOutcome = HeaderOutcome(JoinLines(FirstN(SplitLines(ss.infoComment), MAX_FIELDS)))

(* C9 amended: only the first MAX_FIELDS non-empty newline-separated lines *)
(* of the comment count (empty lines are skipped and not counted); the     *)
(* lines after them change neither startTime, nor any scale, nor the       *)
(* warnings, and are no error.                                              *)
C9_FirstNonEmptyLinesOnly ==
    /\ Parsed =>
        StateOutcome =
            HeaderOutcome(JoinLines(FirstN(SelectSeq(SplitLines(ss.infoComment), NonEmpty),
                                           MAX_FIELDS)))
    /\ (last.op = "open" /\ last.exists /\ last.wav.ok /\ ~BadFormat(last.wav)) => Parsed

C9_Witness ==
    LET lines == SelectSeq(SplitLines(ss.infoComment), NonEmpty)
    IN  /\ Opened
        /\ Len(lines) > MAX_FIELDS
        /\ lines[MAX_FIELDS + 1] = LTime5
        /\ ss.startTime = 0 /\ last.warnings.time

(* C10: each buffer allocated by an open is released exactly once: no      *)
(* block is freed twice, and after a close no buffer allocated by an       *)
(* earlier open remains unreleased.                                         *)
C10_ReleasedExactlyOnce ==
    /\ NeverFreedTwice
    /\ last.op = "close"
           => \A b \in DOMAIN heap : heap[b].kind = "malloc" => heap[b].frees = 1

====
